---------------------------- MODULE Spec2Model ----------------------------
(***************************************************************************)
(* Model of help_functions.py: the kernels object, covariance,             *)
(* sample_covariance and the acquisition object.                           *)
(*                                                                         *)
(* Numbers.  Inputs (coordinates, means, variances, ymax, t, l, kappa)     *)
(* are integers.  Variances are perfect squares, so sqrt is exact.         *)
(* A Z-score is a record [cls, v]: cls = "fin" with v the value in units   *)
(* of 1/2, cls = "inf" with v = 1 or -1, or cls = "nan".  A score or a     *)
(* kernel value is in units of 1/Scale; a score is a record [cls, v]       *)
(* with cls = "fin" or "nan", a kernel value a plain integer.              *)
(* Python rows are 0-based, sequences here 1-based: row r is element r+1.  *)
(***************************************************************************)
EXTENDS Integers, Sequences, FiniteSets

VARIABLES t, l, kappa, ctor, X1, X2, mean, var, call

vars == <<t, l, kappa, ctor, X1, X2, mean, var, call>>

\* ------------------------------------------------------------------ bounds
\* most rows of a point set, most entries of a mean / variance array
MaxRows == 2
MaxLen == 2

\* the values the constructors and the callers supply
Ts == {1, 2}
Ls == {1, 2}
Kappas == {1, 2}
\* variances the posterior reports: 0 and perfect squares
Vars == {0, 1, 4}
Means == {3, 4, 5}
Ymaxs == {3, 4, 5}
\* points of dimension 2
Points == {<<0, 0>>, <<1, 0>>, <<1, 1>>}

SeqsUpTo(S, n) == UNION {[1..k -> S] : k \in 0..n}

\* a 2-D array of shape (N, 2), or a bare 1-D vector of length 2
Arrays2D == {[ndim |-> 2, data |-> d] : d \in SeqsUpTo(Points, MaxRows)}
Arrays1D == {[ndim |-> 1, data |-> p] : p \in Points}
Arrays == Arrays2D \cup Arrays1D

EmptyArray == [ndim |-> 2, data |-> <<>>]

\* ----------------------------------------------------------------- kernels
RECURSIVE DotFrom(_, _, _)
DotFrom(a, b, i) ==
    IF i > Len(a) THEN 0 ELSE a[i] * b[i] + DotFrom(a, b, i + 1)

\* numpy.dot of two 1-D vectors
numpy_dot(a, b) == DotFrom(a, b, 1)

\* x1 - x2 elementwise
VecSub(a, b) == [i \in 1..Len(a) |-> a[i] - b[i]]

\* round(10^4 * exp(-k/8)), k = 0..16
ExpTab ==
    <<10000, 8825, 7788, 6873, 6065, 5353, 4724, 4169, 3679, 3247, 2865,
      2528, 2231, 1969, 1738, 1534, 1353>>

\* round(10^4 * (1 + sqrt(5 r2) + (5/3) r2) * exp(-sqrt(5 r2))), r2 = k/4,
\* k = 0..16
MaternTab ==
    <<10000, 8286, 7025, 6037, 5240, 4583, 4034, 3569, 3173, 2832, 2536,
      2279, 2053, 1855, 1680, 1525, 1387>>

\* 1.0 in the fixed-point resolution of scores and kernel values: exp(0)
Scale == ExpTab[1]

\* self.t**2 * exp(-dot(x1-x2, x1-x2) / (2 * self.l**2));
\* the exponent is -(4 d2 / l^2) / 8, exact for l in Ls
squared_exp(self, x1, x2) ==
    LET d2 == numpy_dot(VecSub(x1, x2), VecSub(x1, x2))
    IN  (self.t * self.t) * ExpTab[((4 * d2) \div (self.l * self.l)) + 1]

\* r2 = dot(x1-x2, x1-x2) / self.l**2 = (4 d2 / l^2) / 4
ARD_matern(self, x1, x2) ==
    LET d2 == numpy_dot(VecSub(x1, x2), VecSub(x1, x2))
    IN  (self.t * self.t) * MaternTab[((4 * d2) \div (self.l * self.l)) + 1]

\* self.t * dot(x1, x2)
trivial(self, x1, x2) == self.t * numpy_dot(x1, x2) * Scale

KernelNames == {"squared_exp", "ARD_matern", "trivial"}

\* the bound method passed as `kernel`
kernel_call(self, name, x1, x2) ==
    CASE name = "squared_exp" -> squared_exp(self, x1, x2)
      [] name = "ARD_matern" -> ARD_matern(self, x1, x2)
      [] name = "trivial" -> trivial(self, x1, x2)

\* -------------------------------------------------------------- covariance
\* try: X.shape[1]  except: X = X.reshape((1, len(X)))
\* (a rebinding of the local name: the caller's array is not written)
as_rows(X) == IF X.ndim = 2 THEN X.data ELSE <<X.data>>

\* numpy.zeros(n), numpy.zeros((n, m))
zeros(n) == [i \in 1..n |-> 0]
zeros2(n, m) == [i \in 1..n |-> [j \in 1..m |-> 0]]

\* mutant: kernel(X1[row, :], X1[row, :])
RECURSIVE fast_loop_self(_, _, _, _, _, _)
fast_loop_self(self, kernel, R1, R2, st, row) ==
    IF row >= Len(R2) THEN st
    ELSE IF row >= Len(R1) THEN [st EXCEPT !.raised = TRUE]
    ELSE fast_loop_self(self, kernel, R1, R2,
            [st EXCEPT !.M[row + 1] = kernel_call(self, kernel,
                                                  R1[row + 1], R1[row + 1]),
                       !.W[row + 1] = @ + 1],
            row + 1)

\* mutant: for row in range(len(X1)), so that X2[row, :] is what can fail
RECURSIVE fast_loop_len1(_, _, _, _, _, _)
fast_loop_len1(self, kernel, R1, R2, st, row) ==
    IF row >= Len(R1) THEN st
    ELSE IF row >= Len(R2) THEN [st EXCEPT !.raised = TRUE]
    ELSE fast_loop_len1(self, kernel, R1, R2,
            [st EXCEPT !.M[row + 1] = kernel_call(self, kernel,
                                                  R1[row + 1], R2[row + 1]),
                       !.W[row + 1] = @ + 1],
            row + 1)

\* for row in range(len(X2)): M[row] = kernel(X1[row, :], X2[row, :])
\* st = [M, W, raised]; W counts the writes to each entry
RECURSIVE fast_loop(_, _, _, _, _, _)
fast_loop(self, kernel, R1, R2, st, row) ==
    IF row >= Len(R2) THEN st
    ELSE IF row >= Len(R1) THEN [st EXCEPT !.raised = TRUE]
    ELSE fast_loop(self, kernel, R1, R2,
            [st EXCEPT !.M[row + 1] = kernel_call(self, kernel,
                                                  R1[row + 1], R2[row + 1]),
                       !.W[row + 1] = @ + 1],
            row + 1)

\* mutant: for row2 in range(row1, len(X2)), the upper triangle only
RECURSIVE full_inner_upper(_, _, _, _, _, _, _)
full_inner_upper(self, kernel, R1, R2, st, row1, row2) ==
    IF row2 >= Len(R2) THEN st
    ELSE IF row2 < row1
    THEN full_inner_upper(self, kernel, R1, R2, st, row1, row1)
    ELSE full_inner_upper(self, kernel, R1, R2,
            [st EXCEPT !.M[row1 + 1][row2 + 1] =
                           kernel_call(self, kernel, R1[row1 + 1], R2[row2 + 1]),
                       !.W[row1 + 1][row2 + 1] = @ + 1],
            row1, row2 + 1)

\* for row2 in range(len(X2)): M[row1, row2] = kernel(X1[row1,:], X2[row2,:])
RECURSIVE full_inner(_, _, _, _, _, _, _)
full_inner(self, kernel, R1, R2, st, row1, row2) ==
    IF row2 >= Len(R2) THEN st
    ELSE full_inner(self, kernel, R1, R2,
            [st EXCEPT !.M[row1 + 1][row2 + 1] =
                           kernel_call(self, kernel, R1[row1 + 1], R2[row2 + 1]),
                       !.W[row1 + 1][row2 + 1] = @ + 1],
            row1, row2 + 1)

\* for row1 in range(len(X1)): ...
RECURSIVE full_outer(_, _, _, _, _, _)
full_outer(self, kernel, R1, R2, st, row1) ==
    IF row1 >= Len(R1) THEN st
    ELSE full_outer(self, kernel, R1, R2,
            full_inner(self, kernel, R1, R2, st, row1, 0), row1 + 1)

\* covariance(X1, X2, kernel, fast): the value returned (ret, unless raised),
\* the write counts, and the caller's two arrays as the call leaves them
covariance(self, A, B, kernel, fast) ==
    LET R1 == as_rows(A)
        R2 == as_rows(B)
        st == IF fast
              THEN fast_loop(self, kernel, R1, R2,
                       [M |-> zeros(Len(R1)), W |-> zeros(Len(R1)),
                        raised |-> FALSE], 0)
              ELSE full_outer(self, kernel, R1, R2,
                       [M |-> zeros2(Len(R1), Len(R2)),
                        W |-> zeros2(Len(R1), Len(R2)),
                        raised |-> FALSE], 0)
    IN  [ret |-> st.M, writes |-> st.W, raised |-> st.raised,
         X1 |-> A, X2 |-> B]

\* mutant: M[row] = kernel(X1[len(X1) - 1 - row, :], sample)
RECURSIVE sample_loop_rev(_, _, _, _, _, _)
sample_loop_rev(self, kernel, R1, sample, st, row) ==
    IF row >= Len(R1) THEN st
    ELSE sample_loop_rev(self, kernel, R1, sample,
            [st EXCEPT !.M[row + 1] = kernel_call(self, kernel,
                                                  R1[Len(R1) - row], sample),
                       !.W[row + 1] = @ + 1],
            row + 1)

\* for row in range(len(X1)): M[row] = kernel(X1[row, :], sample)
RECURSIVE sample_loop(_, _, _, _, _, _)
sample_loop(self, kernel, R1, sample, st, row) ==
    IF row >= Len(R1) THEN st
    ELSE sample_loop(self, kernel, R1, sample,
            [st EXCEPT !.M[row + 1] = kernel_call(self, kernel,
                                                  R1[row + 1], sample),
                       !.W[row + 1] = @ + 1],
            row + 1)

\* sample_covariance(X1, sample, kernel); X1 is a 2-D array
sample_covariance(self, A, sample, kernel) ==
    LET st == sample_loop(self, kernel, A.data, sample,
                  [M |-> zeros(Len(A.data)), W |-> zeros(Len(A.data)),
                   raised |-> FALSE], 0)
    IN  [ret |-> st.M, writes |-> st.W, raised |-> st.raised, X1 |-> A]

\* ------------------------------------------------------------ acquisition
Fin(x) == [cls |-> "fin", v |-> x]
NaN == [cls |-> "nan", v |-> 0]
Inf(sgn) == [cls |-> "inf", v |-> sgn]

\* math.sqrt / numpy.sqrt on a perfect square
sqrt(x) == CHOOSE s \in 0..x : s * s = x

\* a / b in floating point as numpy divides: the quotient in units of 1/2
\* (exact for the divisors sqrt(Vars) produces), x/0 = +-inf, 0/0 = nan
float_div(a, b) ==
    IF b # 0 THEN Fin((2 * a) \div b)
    ELSE IF a > 0 THEN Inf(1)
    ELSE IF a < 0 THEN Inf(-1)
    ELSE NaN

\* round(10^4 * Phi(k/2)), k = 0..8
CdfTab == <<5000, 6915, 8413, 9332, 9772, 9938, 9987, 9998, 10000>>

\* round(10^4 * phi(k/2)), k = 0..8
PdfTab == <<3989, 3521, 2420, 1295, 540, 175, 44, 9, 1>>

Abs(x) == IF x < 0 THEN 0 - x ELSE x

\* scipy.stats.norm.cdf / norm.pdf
norm_cdf(Z) ==
    CASE Z.cls = "nan" -> NaN
      [] Z.cls = "inf" -> IF Z.v > 0 THEN Fin(Scale) ELSE Fin(0)
      [] Z.cls = "fin" -> IF Z.v >= 0 THEN Fin(CdfTab[Z.v + 1])
                          ELSE Fin(Scale - CdfTab[Abs(Z.v) + 1])

norm_pdf(Z) ==
    CASE Z.cls = "nan" -> NaN
      [] Z.cls = "inf" -> Fin(0)
      [] Z.cls = "fin" -> Fin(PdfTab[Abs(Z.v) + 1])

\* a * s and s1 + s2 on scores, a an input number; nan propagates
sc_mul(a, s) == IF s.cls = "nan" THEN NaN ELSE Fin(a * s.v)
sc_add(s1, s2) ==
    IF s1.cls = "nan" \/ s2.cls = "nan" THEN NaN ELSE Fin(s1.v + s2.v)

\* UCB(x, gp, ymax); pred = <<mean, var>> is what gp.sample_predict(x) gave
UCB(self, pred, ymax) ==
    [ret |-> Fin((pred[1] + self.kappa * sqrt(pred[2])) * Scale),
     divisors |-> <<>>]

\* mutant: no test of var == 0
EI_noguard(self, pred, ymax) ==
    LET Z == float_div(pred[1] - ymax, sqrt(pred[2]))
    IN  [ret |-> sc_add(sc_mul(pred[1] - ymax, norm_cdf(Z)),
                        sc_mul(sqrt(pred[2]), norm_pdf(Z))),
         divisors |-> <<sqrt(pred[2])>>]

\* mutant: var * norm.pdf(Z) in place of sqrt(var) * norm.pdf(Z)
EI_var(self, pred, ymax) ==
    IF pred[2] = 0
    THEN [ret |-> Fin(0), divisors |-> <<>>]
    ELSE LET Z == float_div(pred[1] - ymax, sqrt(pred[2]))
         IN  [ret |-> sc_add(sc_mul(pred[1] - ymax, norm_cdf(Z)),
                             sc_mul(pred[2], norm_pdf(Z))),
              divisors |-> <<sqrt(pred[2])>>]

\* EI(x, gp, ymax)
EI(self, pred, ymax) ==
    IF pred[2] = 0
    THEN [ret |-> Fin(0), divisors |-> <<>>]
    ELSE LET Z == float_div(pred[1] - ymax, sqrt(pred[2]))
         IN  [ret |-> sc_add(sc_mul(pred[1] - ymax, norm_cdf(Z)),
                             sc_mul(sqrt(pred[2]), norm_pdf(Z))),
              divisors |-> <<sqrt(pred[2])>>]

\* mutant: no test of var == 0
PoI_noguard(self, pred, ymax) ==
    LET Z == float_div(pred[1] - ymax, sqrt(pred[2]))
    IN  [ret |-> norm_cdf(Z), divisors |-> <<sqrt(pred[2])>>]

\* PoI(x, gp, ymax)
PoI(self, pred, ymax) ==
    IF pred[2] = 0
    THEN [ret |-> Fin(Scale), divisors |-> <<>>]
    ELSE LET Z == float_div(pred[1] - ymax, sqrt(pred[2]))
         IN  [ret |-> norm_cdf(Z), divisors |-> <<sqrt(pred[2])>>]

\* a[mask]: the entries of a at the positions where mask holds, in order
RECURSIVE compress_from(_, _, _)
compress_from(a, mask, i) ==
    IF i > Len(a) THEN <<>>
    ELSE IF mask[i] THEN <<a[i]>> \o compress_from(a, mask, i + 1)
    ELSE compress_from(a, mask, i + 1)

compress(a, mask) == compress_from(a, mask, 1)

\* a[mask] = vals: vals written, in order, at the positions where mask holds
RECURSIVE scatter_from(_, _, _, _, _)
scatter_from(a, mask, vals, i, k) ==
    IF i > Len(a) THEN a
    ELSE IF mask[i]
         THEN scatter_from([a EXCEPT ![i] = vals[k]], mask, vals, i + 1, k + 1)
         ELSE scatter_from(a, mask, vals, i + 1, k)

scatter(a, mask, vals) == scatter_from(a, mask, vals, 1, 1)

\* numpy.sqrt(var): a new array
numpy_sqrt(a) == [i \in 1..Len(a) |-> sqrt(a[i])]

\* mean.reshape(len(mean)): the same entries of a 1-D array
reshape1(a) == [i \in 1..Len(a) |-> a[i]]

\* full_UCB(mean, var)
full_UCB(self, m, v) ==
    LET mean1 == reshape1(m)
        sd == numpy_sqrt(v)
    IN  [ret |-> [i \in 1..Len(mean1) |->
                     Fin((mean1[i] + self.kappa * sd[i]) * Scale)],
         divisors |-> <<>>, mean |-> m, var |-> v]

\* mutant: no mask, every entry computed
full_EI_nomask(self, ymax, m, v) ==
    LET mean1 == reshape1(m)
        sd == numpy_sqrt(v)
        Z == [k \in 1..Len(mean1) |-> float_div(mean1[k] - ymax, sd[k])]
    IN  [ret |-> [k \in 1..Len(mean1) |->
                     sc_add(sc_mul(mean1[k] - ymax, norm_cdf(Z[k])),
                            sc_mul(sd[k], norm_pdf(Z[k])))],
         divisors |-> sd, mean |-> m, var |-> v]

\* mutant: numpy.sqrt(var, out=var), the square root taken in place
full_EI_inplace(self, ymax, m, v) ==
    LET ei == [i \in 1..Len(m) |-> Fin(0)]
        mean1 == reshape1(m)
        sd == numpy_sqrt(v)
        mask == [i \in 1..Len(sd) |-> sd[i] > 0]
        mm == compress(mean1, mask)
        ss == compress(sd, mask)
        Z == [k \in 1..Len(mm) |-> float_div(mm[k] - ymax, ss[k])]
        vals == [k \in 1..Len(mm) |->
                    sc_add(sc_mul(mm[k] - ymax, norm_cdf(Z[k])),
                           sc_mul(ss[k], norm_pdf(Z[k])))]
    IN  [ret |-> scatter(ei, mask, vals), divisors |-> ss,
         mean |-> m, var |-> sd]

\* full_EI(ymax, mean, var)
full_EI(self, ymax, m, v) ==
    LET ei == [i \in 1..Len(m) |-> Fin(0)]
        mean1 == reshape1(m)
        sd == numpy_sqrt(v)
        mask == [i \in 1..Len(sd) |-> sd[i] > 0]
        mm == compress(mean1, mask)
        ss == compress(sd, mask)
        Z == [k \in 1..Len(mm) |-> float_div(mm[k] - ymax, ss[k])]
        vals == [k \in 1..Len(mm) |->
                    sc_add(sc_mul(mm[k] - ymax, norm_cdf(Z[k])),
                           sc_mul(ss[k], norm_pdf(Z[k])))]
    IN  [ret |-> scatter(ei, mask, vals), divisors |-> ss,
         mean |-> m, var |-> v]

\* full_PoI(ymax, mean, var)
full_PoI(self, ymax, m, v) ==
    LET mean1 == reshape1(m)
        sd == numpy_sqrt(v)
        gamma == [i \in 1..Len(mean1) |-> float_div(mean1[i] - ymax, sd[i])]
    IN  [ret |-> [i \in 1..Len(gamma) |-> norm_cdf(gamma[i])],
         divisors |-> sd, mean |-> m, var |-> v]

\* ----------------------------------------------------------- state machine
\* t, l: the kernels object; kappa: the acquisition object; ctor: the
\* arguments the two constructors were given.  X1, X2, mean, var: the
\* caller's arrays of the current call, as that call left them.  call: the
\* current call, with its arguments as they were passed and what it produced;
\* op = "none" between two calls.  Calls are synchronous: one at a time.
NoCall ==
    [op |-> "none", kernel |-> "none", fast |-> FALSE, ymax |-> 0,
     pred |-> <<0, 0>>, x1 |-> <<>>, x2 |-> <<>>,
     inX1 |-> EmptyArray, inX2 |-> EmptyArray, inMean |-> <<>>, inVar |-> <<>>,
     raised |-> FALSE, ret |-> <<>>, writes |-> <<>>, divisors |-> <<>>]

\* kernels.__init__(t, l) and acquisition.__init__(k)
Init ==
    /\ ctor \in [t : Ts, l : Ls, k : Kappas]
    /\ t = ctor.t
    /\ l = ctor.l
    /\ kappa = ctor.k
    /\ X1 = EmptyArray
    /\ X2 = EmptyArray
    /\ mean = <<>>
    /\ var = <<>>
    /\ call = NoCall

kern == [t |-> t, l |-> l]
acq == [kappa |-> kappa]

\* mean and var arrays of one length
MeanVars == UNION {[1..n -> Means] \X [1..n -> Vars] : n \in 0..MaxLen}

\* a direct call of one kernel method on two points
CallKernel(name) ==
    /\ call.op = "none"
    /\ \E p \in Points, q \in Points :
        /\ call' = [NoCall EXCEPT !.op = name, !.kernel = name,
                                  !.x1 = p, !.x2 = q,
                                  !.ret = kernel_call(kern, name, p, q)]
        /\ UNCHANGED <<t, l, kappa, ctor, X1, X2, mean, var>>

CallSquaredExp == CallKernel("squared_exp")
CallARDMatern == CallKernel("ARD_matern")
CallTrivial == CallKernel("trivial")

CallCovariance ==
    /\ call.op = "none"
    /\ \E A \in Arrays, B \in Arrays, k \in KernelNames, f \in BOOLEAN :
        LET r == covariance(kern, A, B, k, f)
        IN  /\ call' = [NoCall EXCEPT !.op = "covariance", !.kernel = k,
                                      !.fast = f, !.inX1 = A, !.inX2 = B,
                                      !.raised = r.raised,
                                      !.ret = IF r.raised THEN <<>> ELSE r.ret,
                                      !.writes = r.writes]
            /\ X1' = r.X1
            /\ X2' = r.X2
            /\ UNCHANGED <<t, l, kappa, ctor, mean, var>>

CallSampleCovariance ==
    /\ call.op = "none"
    /\ \E A \in Arrays2D, p \in Points, k \in KernelNames :
        LET r == sample_covariance(kern, A, p, k)
        IN  /\ call' = [NoCall EXCEPT !.op = "sample_covariance",
                                      !.kernel = k, !.inX1 = A, !.x2 = p,
                                      !.raised = r.raised, !.ret = r.ret,
                                      !.writes = r.writes]
            /\ X1' = r.X1
            /\ UNCHANGED <<t, l, kappa, ctor, X2, mean, var>>

\* the three single-point operations; m, v: the reply of gp.sample_predict(x)
CallSingle(name, r, m, v, y) ==
    /\ call' = [NoCall EXCEPT !.op = name, !.pred = <<m, v>>, !.ymax = y,
                              !.ret = r.ret, !.divisors = r.divisors]
    /\ UNCHANGED <<t, l, kappa, ctor, X1, X2, mean, var>>

CallUCB ==
    /\ call.op = "none"
    /\ \E m \in Means, v \in Vars, y \in Ymaxs :
        CallSingle("UCB", UCB(acq, <<m, v>>, y), m, v, y)

CallEI ==
    /\ call.op = "none"
    /\ \E m \in Means, v \in Vars, y \in Ymaxs :
        CallSingle("EI", EI(acq, <<m, v>>, y), m, v, y)

CallPoI ==
    /\ call.op = "none"
    /\ \E m \in Means, v \in Vars, y \in Ymaxs :
        CallSingle("PoI", PoI(acq, <<m, v>>, y), m, v, y)

\* the three bulk operations
CallBulk(name, r, m, v, y) ==
    /\ call' = [NoCall EXCEPT !.op = name, !.inMean = m, !.inVar = v,
                              !.ymax = y, !.ret = r.ret,
                              !.divisors = r.divisors]
    /\ mean' = r.mean
    /\ var' = r.var
    /\ UNCHANGED <<t, l, kappa, ctor, X1, X2>>

CallFullUCB ==
    /\ call.op = "none"
    /\ \E mv \in MeanVars :
        CallBulk("full_UCB", full_UCB(acq, mv[1], mv[2]), mv[1], mv[2], 0)

CallFullEI ==
    /\ call.op = "none"
    /\ \E mv \in MeanVars, y \in Ymaxs :
        CallBulk("full_EI", full_EI(acq, y, mv[1], mv[2]), mv[1], mv[2], y)

CallFullPoI ==
    /\ call.op = "none"
    /\ \E mv \in MeanVars, y \in Ymaxs :
        CallBulk("full_PoI", full_PoI(acq, y, mv[1], mv[2]), mv[1], mv[2], y)

\* the caller takes the result and goes on to its next iteration, which
\* works on fresh arrays
NextIteration ==
    /\ call.op # "none"
    /\ call' = NoCall
    /\ X1' = EmptyArray
    /\ X2' = EmptyArray
    /\ mean' = <<>>
    /\ var' = <<>>
    /\ UNCHANGED <<t, l, kappa, ctor>>

Next ==
    \/ CallSquaredExp
    \/ CallARDMatern
    \/ CallTrivial
    \/ CallCovariance
    \/ CallSampleCovariance
    \/ CallUCB
    \/ CallEI
    \/ CallPoI
    \/ CallFullUCB
    \/ CallFullEI
    \/ CallFullPoI
    \/ NextIteration

Spec == Init /\ [][Next]_vars

\* ------------------------------------------------------------------ claims
\* the expected-improvement formula for one (mean, variance > 0) and ymax
EIFormula(m, v, y) ==
    LET Z == float_div(m - y, sqrt(v))
    IN  sc_add(sc_mul(m - y, norm_cdf(Z)), sc_mul(sqrt(v), norm_pdf(Z)))

IsPointSets == call.inX1.ndim = 2 /\ call.inX2.ndim = 2
Rows1 == call.inX1.data
Rows2 == call.inX2.data

\* C1: full_EI returns an array as long as mean, in the input order, whose
\* entry i is exactly 0 where var[i] = 0 and the EI formula where var[i] > 0,
\* and it never divides by a zero standard deviation.
C1_FullEI ==
    call.op = "full_EI" =>
        /\ Len(call.ret) = Len(call.inMean)
        /\ \A i \in 1..Len(call.inMean) :
              IF call.inVar[i] = 0
              THEN call.ret[i] = Fin(0)
              ELSE call.ret[i] =
                       EIFormula(call.inMean[i], call.inVar[i], call.ymax)
        /\ \A k \in 1..Len(call.divisors) : call.divisors[k] # 0

\* mean = [5, 5], var = [0, 4], ymax = 4: [0, 1 Phi(0.5) + 2 phi(0.5)]
C1_Witness ==
    /\ call.op = "full_EI"
    /\ call.inMean = <<5, 5>>
    /\ call.inVar = <<0, 4>>
    /\ call.ymax = 4
    /\ call.ret = <<Fin(0), Fin(13957)>>

\* C2: EI returns 0 whenever the predicted variance is 0, for every mean and
\* ymax, and then performs no division.
C2_EIZeroVar ==
    (call.op = "EI" /\ call.pred[2] = 0) =>
        (call.ret = Fin(0) /\ call.divisors = <<>>)

C2_Witness ==
    /\ call.op = "EI"
    /\ call.pred = <<3, 0>>
    /\ call.ymax = 5
    /\ call.ret = Fin(0)

\* C3: PoI returns 1 whenever the predicted variance is 0, for every mean
\* and ymax (mean < ymax included), and then performs no division.
C3_PoIZeroVar ==
    (call.op = "PoI" /\ call.pred[2] = 0) =>
        (call.ret = Fin(Scale) /\ call.divisors = <<>>)

C3_Witness ==
    /\ call.op = "PoI"
    /\ call.pred = <<3, 0>>
    /\ call.ymax = 5
    /\ call.ret = Fin(Scale)

\* C4: full_PoI gives, at every index of variance 0, a score that is 0 or 1
\* according to the sign of mean[i] - ymax, for every mean[i] and ymax.
C4_FullPoIZeroVar ==
    call.op = "full_PoI" =>
        \A i \in 1..Len(call.inVar) :
            call.inVar[i] = 0 =>
                /\ call.ret[i] \in {Fin(0), Fin(Scale)}
                /\ call.inMean[i] > call.ymax => call.ret[i] = Fin(Scale)
                /\ call.inMean[i] < call.ymax => call.ret[i] = Fin(0)

\* C5: covariance in full mode on point sets of N and M rows returns an N by M
\* matrix whose entry (i, j) is kernel(X1[i], X2[j]), each entry written
\* exactly once.
C5_FullMode ==
    (call.op = "covariance" /\ ~call.fast /\ IsPointSets) =>
        /\ ~call.raised
        /\ Len(call.ret) = Len(Rows1)
        /\ \A i \in 1..Len(Rows1) :
              /\ Len(call.ret[i]) = Len(Rows2)
              /\ \A j \in 1..Len(Rows2) :
                    /\ call.ret[i][j] =
                           kernel_call(kern, call.kernel, Rows1[i], Rows2[j])
                    /\ call.writes[i][j] = 1

\* N = 2, M = 1, squared_exp with t = 2, l = 1:
\* 4 exp(-1/2) and 4 exp(0)
C5_Witness ==
    /\ call.op = "covariance"
    /\ ~call.fast
    /\ call.kernel = "squared_exp"
    /\ t = 2
    /\ l = 1
    /\ call.inX1 = [ndim |-> 2, data |-> <<<<0, 0>>, <<1, 0>>>>]
    /\ call.inX2 = [ndim |-> 2, data |-> <<<<1, 0>>>>]
    /\ call.ret = <<<<24260>>, <<40000>>>>

\* C6: covariance in fast mode on two point sets of N rows each returns a
\* vector of N entries, entry i being kernel(X1[i], X2[i]): the diagonal of
\* what full mode returns for the same arguments.
C6_FastMode ==
    (call.op = "covariance" /\ call.fast /\ IsPointSets
        /\ Len(Rows1) = Len(Rows2)) =>
        /\ ~call.raised
        /\ Len(call.ret) = Len(Rows1)
        /\ \A i \in 1..Len(Rows1) :
              /\ call.ret[i] =
                     kernel_call(kern, call.kernel, Rows1[i], Rows2[i])
              /\ call.ret[i] =
                     covariance(kern, call.inX1, call.inX2,
                                call.kernel, FALSE).ret[i][i]

C6_Witness ==
    /\ call.op = "covariance"
    /\ call.fast
    /\ call.kernel = "trivial"
    /\ t = 2
    /\ call.inX1 = [ndim |-> 2, data |-> <<<<1, 0>>, <<1, 1>>>>]
    /\ call.inX2 = [ndim |-> 2, data |-> <<<<0, 0>>, <<1, 1>>>>]
    /\ call.ret = <<0, 4 * Scale>>

\* C7, as stated: covariance in fast mode on point sets of unequal length
\* never returns a vector; it always fails on an index.
C7_UnequalAlwaysFails ==
    (call.op = "covariance" /\ call.fast /\ IsPointSets
        /\ Len(Rows1) # Len(Rows2)) => call.raised

\* C7, amended: with len(X2) > len(X1) the call fails on an index; with
\* len(X2) < len(X1) it returns a vector of len(X1) entries whose first
\* len(X2) entries are kernel(X1[i], X2[i]) and whose other entries are the 0
\* they were initialised with.
C7_UnequalLength ==
    (call.op = "covariance" /\ call.fast /\ IsPointSets
        /\ Len(Rows1) # Len(Rows2)) =>
        IF Len(Rows2) > Len(Rows1)
        THEN call.raised
        ELSE /\ ~call.raised
             /\ Len(call.ret) = Len(Rows1)
             /\ \A i \in 1..Len(Rows1) :
                   IF i <= Len(Rows2)
                   THEN call.ret[i] =
                            kernel_call(kern, call.kernel, Rows1[i], Rows2[i])
                   ELSE call.ret[i] = 0 /\ call.writes[i] = 0

C7_Witness ==
    /\ call.op = "covariance"
    /\ call.fast
    /\ call.kernel = "ARD_matern"
    /\ IsPointSets
    /\ Len(Rows1) = 2
    /\ Len(Rows2) = 1
    /\ ~call.raised
    /\ call.ret[1] > 0
    /\ call.ret[2] = 0

\* C8: sample_covariance on a point set of N rows and one point returns a
\* vector of N entries, entry i being kernel(X1[i], sample), in row order.
C8_SampleCovariance ==
    call.op = "sample_covariance" =>
        /\ ~call.raised
        /\ Len(call.ret) = Len(Rows1)
        /\ \A i \in 1..Len(Rows1) :
              call.ret[i] = kernel_call(kern, call.kernel, Rows1[i], call.x2)

C8_Witness ==
    /\ call.op = "sample_covariance"
    /\ call.kernel = "trivial"
    /\ t = 1
    /\ call.inX1 = [ndim |-> 2, data |-> <<<<1, 1>>, <<0, 0>>>>]
    /\ call.x2 = <<1, 1>>
    /\ call.ret = <<2 * Scale, 0>>

\* C9: whatever calls have run, t, l and kappa hold the values given at
\* construction, and the arrays a call was given are, after it, as they were
\* passed, so that the same call made again on them returns the same result.
C9_NothingMutated ==
    /\ t = ctor.t
    /\ l = ctor.l
    /\ kappa = ctor.k
    /\ call.op = "covariance" =>
           /\ X1 = call.inX1
           /\ X2 = call.inX2
           /\ LET again == covariance(kern, X1, X2, call.kernel, call.fast)
              IN  /\ again.raised = call.raised
                  /\ ~again.raised => again.ret = call.ret
    /\ call.op = "sample_covariance" =>
           /\ X1 = call.inX1
           /\ sample_covariance(kern, X1, call.x2, call.kernel).ret = call.ret
    /\ call.op \in {"full_UCB", "full_EI", "full_PoI"} =>
           /\ mean = call.inMean
           /\ var = call.inVar
    /\ call.op = "full_UCB" => full_UCB(acq, mean, var).ret = call.ret
    /\ call.op = "full_EI" =>
           full_EI(acq, call.ymax, mean, var).ret = call.ret
    /\ call.op = "full_PoI" =>
           full_PoI(acq, call.ymax, mean, var).ret = call.ret

C9_Witness ==
    /\ call.op = "full_EI"
    /\ t = 2
    /\ l = 2
    /\ kappa = 2
    /\ call.inVar = <<4, 0>>
    /\ var = <<4, 0>>
    /\ call.ret[1].v > 0

\* C10: entry i of full_EI(ymax, mean, var) is what EI returns for a
\* prediction (mean[i], var[i]) and the same ymax, whether var[i] is 0 or not.
C10_BulkIsSingle ==
    call.op = "full_EI" =>
        \A i \in 1..Len(call.inMean) :
            call.ret[i] =
                EI(acq, <<call.inMean[i], call.inVar[i]>>, call.ymax).ret

C10_Witness ==
    /\ call.op = "full_EI"
    /\ call.inMean = <<3, 5>>
    /\ call.inVar = <<4, 0>>
    /\ call.ymax = 4
    /\ call.ret = <<EI(acq, <<3, 4>>, 4).ret, EI(acq, <<5, 0>>, 4).ret>>
    /\ call.ret[1] # Fin(0)

=============================================================================
